---- MODULE Spec2Model ----
(***************************************************************************)
(* Model of the AxraPay SDK test harness: the AxraPayTester class          *)
(* (src/src/lib/axrapay.ts) and the App component's handlers and state     *)
(* (src/src/App.tsx).                                                      *)
(*                                                                         *)
(* JavaScript runs one task at a time.  A handler runs up to its first     *)
(* await on a promise the outside world settles (createPaymentIntent,      *)
(* mountCardForm, mountTokenForm, fetch); the rest of the handler runs     *)
(* when that promise settles.  An await on a promise that is already       *)
(* settled (initializeSDK, the gate returns of the tester) continues in    *)
(* the microtask checkpoint of the same task, before any other event, so   *)
(* such a handler is one action.                                           *)
(*                                                                         *)
(* Strings built by template literals are sequences of fragments: the      *)
(* concatenation of strings is the concatenation of sequences.             *)
(***************************************************************************)
EXTENDS Integers, Sequences, FiniteSets, TLC

VARIABLES
    config,         \* App: useState<TestConfig>
    axraPay,        \* AxraPayTester.axraPay: the client handle or NULL
    isInitialized,  \* AxraPayTester.isInitialized
    logs,           \* App: useState<LogEntry[]>
    results,        \* App: the five result slots
    inv,            \* the invocations that reached the underlying client or fetch
    dom,            \* the content of #cardFormContainer and #tokenFormContainer
    sdkCalls,       \* the calls the last step made on the underlying client or fetch
    unhandled       \* a handler's own promise was rejected

vars == <<config, axraPay, isInitialized, logs, results, inv, dom, sdkCalls, unhandled>>

----------------------------------------------------------------------------
(* Bounds *)

\* the log holds at most MaxLog entries: a handler that would exceed it waits
MaxLog == 2
\* at most MaxInv invocations reach the underlying client or fetch
MaxInv == 2

----------------------------------------------------------------------------
(* Values *)

NULL == [isNull |-> TRUE]

PublishableKeys == {"", "pk_1"}
BusinessIds == {"", "b1", "b2"}
SdkTokens == {""}

TestConfig == [publishableKey : PublishableKeys, businessId : BusinessIds,
               sdkToken : SdkTokens]

\* App.tsx 14-18: the config the App starts with
InitialConfig == [publishableKey |-> "pk_1", businessId |-> "b1", sdkToken |-> ""]

\* a thrown or rejected value: an Error with a message, or a value that has no
\* properties to read (undefined, null)
Error(msg) == [hasMessage |-> TRUE, message |-> msg]
Nullish == [hasMessage |-> FALSE, message |-> <<>>]

\* what reading .message of undefined throws
TypeErrorMessage == <<"Cannot read properties of undefined (reading 'message')">>

\* the failures the underlying client and fetch are made to produce
SdkErrors == {Error(<<"sdk failure">>), Nullish}

\* completion of a call: a returned value or a thrown one
Return(v) == [kind |-> "return", value |-> v]
Throw(e) == [kind |-> "throw", value |-> e]

\* TestResult (axrapay.ts 11-15); data is <<>> when absent
TestResult(success, message, data) ==
    [success |-> success, message |-> message, data |-> data]

\* LogEntry (App.tsx 7-11); the timestamp is the wall clock's and is left out
LogEntry(message, type) == [message |-> message, type |-> type]

\* the underlying client's answers
PaymentIntents == {[id |-> "pi_1"]}
CardPayments == {[id |-> "pay_1"]}
Tokens == {[id |-> "tok_id_1"]}

----------------------------------------------------------------------------
(* AxraPayTester (src/src/lib/axrapay.ts) *)

\* a validation that looks at the publishable key only
ConfigMissing_KeyOnly(cfg) == cfg.publishableKey = ""

\* axrapay.ts 26: !config.publishableKey || !config.businessId
ConfigMissing(cfg) == cfg.publishableKey = "" \/ cfg.businessId = ""

\* axrapay.ts 30-35: the options the client is constructed with
NewAxraPay(cfg) ==
    [environment |-> "development",
     publishableKey |-> cfg.publishableKey,
     sdkToken |-> IF cfg.sdkToken = "" THEN "demo-sdk-token-123" ELSE cfg.sdkToken,
     businessId |-> cfg.businessId]

\* a catch block that leaves the error's message out of its envelope
CatchResult_NoMessage(prefix, error) ==
    IF error.hasMessage
    THEN Return(TestResult(FALSE, <<prefix>>, <<"error">>))
    ELSE Throw(Error(TypeErrorMessage))

\* a catch block that builds its envelope from error.message: reading
\* .message of undefined throws out of the catch block
CatchResult(prefix, error) ==
    IF error.hasMessage
    THEN Return(TestResult(FALSE, <<prefix>> \o error.message,
                           <<"error">> \o error.message))
    ELSE Throw(Error(TypeErrorMessage))

\* A call on the underlying client, its constructor or fetch: the handle it
\* is made on (NULL for the constructor and fetch) and the parameters that
\* come from the config, as a set of <<name, value>>.
Call(name, on, with) == [call |-> name, on |-> on, with |-> with]

\* axrapay.ts 30-35: the arguments of new AxraPay(...)
ConstructorCall(cfg) ==
    Call("new AxraPay", NULL,
         {<<"environment", "development">>,
          <<"publishableKey", cfg.publishableKey>>,
          <<"sdkToken", IF cfg.sdkToken = "" THEN "demo-sdk-token-123" ELSE cfg.sdkToken>>,
          <<"businessId", cfg.businessId>>})

\* a catch block that drops the handle
FailedHandle_Dropped == NULL

\* a tester that keeps the first client it constructed
SucceededHandle_First(cfg) == IF axraPay = NULL THEN NewAxraPay(cfg) ELSE axraPay

\* axrapay.ts 30: this.axraPay = new AxraPay({...}), whatever it held
SucceededHandle(cfg) == NewAxraPay(cfg)

\* axrapay.ts 44-51: the catch block of initializeSDK does not assign
\* this.axraPay
FailedHandle == axraPay

\* a catch block that leaves the flag as it was
InitFailedFlag_Kept == isInitialized

\* a flag raised before the credentials are validated
InitFailedFlag_Raised == TRUE

\* axrapay.ts 45: the catch block of initializeSDK clears the flag
InitFailedFlag == FALSE

\* axrapay.ts 24-52.  ctor is what new AxraPay(...) does: "ok" or a thrown value.
\* Gives the new handle and flag, the completion, and the calls made on the SDK.
initializeSDK(cfg, ctor) ==
    IF ConfigMissing(cfg)
    THEN [axraPay |-> FailedHandle, isInitialized |-> InitFailedFlag,
          completion |-> CatchResult("SDK initialization failed: ",
              Error(<<"Please provide both publishable key and business ID">>)),
          calls |-> {}]
    ELSE IF ctor = Return("ok")
    THEN [axraPay |-> SucceededHandle(cfg), isInitialized |-> TRUE,
          completion |-> Return(TestResult(TRUE,
              <<"SDK initialized successfully! Business config loaded.">>,
              <<"initialized">>)),
          calls |-> {ConstructorCall(cfg)}]
    ELSE [axraPay |-> FailedHandle, isInitialized |-> InitFailedFlag,
          completion |-> CatchResult("SDK initialization failed: ", ctor.value),
          calls |-> {ConstructorCall(cfg)}]

\* an accessor that reports ready whatever the flag
isSDKInitialized_AlwaysTrue == TRUE

\* axrapay.ts 411-413
isSDKInitialized == isInitialized

\* axrapay.ts 58, 91, 227: !this.isInitialized || !this.axraPay
TesterGateClosed == ~isInitialized \/ axraPay = NULL

\* axrapay.ts 59-62, 92-95, 228-231
GateResult == TestResult(FALSE, <<"Please initialize the SDK first">>, <<>>)

\* axrapay.ts 66-71: this.axraPay.createPaymentIntent({..., businessId})
PaymentIntentCall(cfg) ==
    Call("createPaymentIntent", axraPay, {<<"businessId", cfg.businessId>>})

\* a success message that leaves the identifier out
testPaymentIntent_settled_NoId(settled) ==
    IF settled.kind = "return"
    THEN Return(TestResult(TRUE, <<"Payment intent created successfully!">>,
                           <<"id", settled.value.id>>))
    ELSE CatchResult("Payment intent creation failed: ", settled.value)

\* axrapay.ts 65-84: the rest of testPaymentIntent once createPaymentIntent
\* has settled with `settled`
testPaymentIntent_settled(settled) ==
    IF settled.kind = "return"
    THEN Return(TestResult(TRUE,
             <<"Payment intent created successfully! ID: ", settled.value.id>>,
             <<"id", settled.value.id>>))
    ELSE CatchResult("Payment intent creation failed: ", settled.value)

\* the two widget surfaces and the texts that differ between them
\* (axrapay.ts 90-192 for the card form, 226-332 for the token form;
\* App.tsx 99-128 and 130-159)
Widgets == {"card", "token"}

Texts(w) ==
    IF w = "card"
    THEN [slot |-> "cardForm", containerId |-> "cardFormContainer",
          mount |-> "mountCardForm",
          mounted |-> <<"AxraPay card form mounted successfully! Try making a payment.">>,
          failPrefix |-> "Card form mounting failed: ",
          startLog |-> <<"Testing card form mounting...">>,
          okLog |-> <<"Card form mounted successfully!">>,
          clearedLog |-> <<"Card form cleared">>,
          cbSuccess |-> "Payment successful! ID: ",
          cbError |-> "Payment failed: ",
          cbCancel |-> <<"Payment cancelled by user">>]
    ELSE [slot |-> "tokenForm", containerId |-> "tokenFormContainer",
          mount |-> "mountTokenForm",
          mounted |-> <<"AxraPay token form mounted successfully! Try creating a token.">>,
          failPrefix |-> "Token form mounting failed: ",
          startLog |-> <<"Testing token form mounting...">>,
          okLog |-> <<"Token form mounted successfully!">>,
          clearedLog |-> <<"Token form cleared">>,
          cbSuccess |-> "Token created successfully! ID: ",
          cbError |-> "Token creation failed: ",
          cbCancel |-> <<"Token creation cancelled by user">>]

\* The content of a container element.  gen names the mount that built the
\* subtree; form is the #axrapay-*-form element, result the #*FormResult one
\* (<<>> while it is hidden).
Placeholder == [kind |-> "placeholder", gen |-> 0, form |-> "none", result |-> <<>>]
Cleared == [kind |-> "empty", gen |-> 0, form |-> "none", result |-> <<>>]

\* axrapay.ts 106-120, 242-256: container.innerHTML = the loading subtree
MountedContent(id) == [kind |-> "mounted", gen |-> id, form |-> "loading", result |-> <<>>]

\* container.querySelector('#axrapay-card-form') / ('#cardFormResult') finds
\* an element exactly when the container holds a mounted subtree
HasSubtree(container) == container # NULL /\ container.kind = "mounted"

\* axrapay.ts 123-128, 263-264: this.axraPay.mountCardForm({selector, ...,
\* businessId, ...}) / mountTokenForm({selector, ...}), which takes nothing
\* else from the config
MountCall(w, cfg) ==
    Call(Texts(w).mount, axraPay,
         {<<"selector", Texts(w).containerId>>}
             \cup IF w = "card" THEN {<<"businessId", cfg.businessId>>} ELSE {})

\* a container check that never fails
ContainerMissing_Never(container) == FALSE

\* axrapay.ts 98-99, 234-235: document.getElementById(containerId) is null
ContainerMissing(container) == container = NULL

\* axrapay.ts 98-103, 234-239: the container check; the error it throws
\* when the element is missing
ContainerNotFound(w) ==
    Error(<<"Container with id '", Texts(w).containerId, "' not found">>)

\* a catch block that writes no notice
mountFailed_NoNotice(w, container, error) ==
    [content |-> container,
     completion |-> CatchResult(Texts(w).failPrefix, error)]

\* axrapay.ts 170-191, 310-331: the catch block.  The failure notice is
\* written into the form element the container holds now, if any; the
\* notice and the envelope both read error.message
mountFailed(w, container, error) ==
    [content |-> IF HasSubtree(container) /\ error.hasMessage
                 THEN [container EXCEPT !.form = "failed"]
                 ELSE container,
     completion |-> CatchResult(Texts(w).failPrefix, error)]

\* a resolved mount reported as a failure
mountResolved_Failure(w) == Return(TestResult(FALSE, Texts(w).mounted, <<"mounted">>))

\* axrapay.ts 165-169, 305-309
mountResolved(w) == Return(TestResult(TRUE, Texts(w).mounted, <<"mounted">>))

\* axrapay.ts 123-191, 263-331 after the await: the mount call settled
testForm_settled(w, container, settled) ==
    IF settled.kind = "return"
    THEN [content |-> container, completion |-> mountResolved(w)]
    ELSE mountFailed(w, container, settled.value)

\* what the underlying client may call back with
Callbacks ==
    {[cb |-> "onSuccess", id |-> "r_1"], [cb |-> "onError", id |-> ""],
     [cb |-> "onCancel", id |-> ""]}

\* axrapay.ts 133-154, 273-294: the message and type each callback shows
\* (the leading pictograph of each message is left out)
CallbackShown(w, c) ==
    IF c.cb = "onSuccess"
    THEN [message |-> <<Texts(w).cbSuccess, c.id>>, type |-> "success", data |-> TRUE]
    ELSE IF c.cb = "onError"
    THEN [message |-> <<Texts(w).cbError, "declined">>, type |-> "error", data |-> FALSE]
    ELSE [message |-> Texts(w).cbCancel, type |-> "error", data |-> FALSE]

\* axrapay.ts 197-221, 338-362: showCardFormResult / showTokenFormResult on
\* the result element the container holds now; nothing when there is none
showFormResult(container, shown, from) ==
    IF ~HasSubtree(container)
    THEN container
    ELSE [container EXCEPT !.result =
             <<[message |-> shown.message, type |-> shown.type,
                details |-> shown.type = "success" /\ shown.data,
                from |-> from]>>]

\* axrapay.ts 370-376: the request of testCORS
FetchCall(cfg) ==
    Call("fetch", NULL,
         {<<"businessId", cfg.businessId>>,
          <<"X-AxraPay-Publishable-Key", cfg.publishableKey>>,
          <<"Authorization",
            IF cfg.sdkToken = "" THEN "demo-sdk-token-123" ELSE cfg.sdkToken>>})

\* what fetch settles with (axrapay.ts 370-376)
Responses ==
    {[ok |-> TRUE, status |-> "200"], [ok |-> FALSE, status |-> "403"],
     [ok |-> FALSE, status |-> "500"]}
FetchFailures ==
    {Error(<<"Failed to fetch">>), Error(<<"blocked by ", "CORS", " policy">>),
     Error(<<"Cross-Origin", " Request Blocked">>),
     Error(<<"cross-origin", " request blocked">>)}

\* String.prototype.includes on a text of fragments, for a word that is one
\* of its fragments
Includes(text, word) == \E k \in 1..Len(text) : text[k] = word

\* a message that leaves the status out
HttpErrorMessage_NoStatus(status) == <<"CORS test failed - HTTP error">>

\* axrapay.ts 386: `CORS test failed - HTTP error: ${response.status}`
HttpErrorMessage(status) == <<"CORS test failed - HTTP error: ", status>>

\* axrapay.ts 368-406 after the await of fetch
testCORS_settled(settled) ==
    IF settled.kind = "return"
    THEN IF settled.value.ok
         THEN Return(TestResult(TRUE,
                  <<"CORS test passed! Cross-origin requests are working correctly.">>,
                  <<"status", settled.value.status>>))
         ELSE Return(TestResult(FALSE, HttpErrorMessage(settled.value.status),
                  <<"status", settled.value.status>>))
    ELSE IF ~settled.value.hasMessage
    THEN Throw(Error(TypeErrorMessage))
    ELSE IF Includes(settled.value.message, "CORS")
            \/ Includes(settled.value.message, "cross-origin")
    THEN CatchResult("CORS test failed - CORS error: ", settled.value)
    ELSE CatchResult("CORS test failed: ", settled.value)

----------------------------------------------------------------------------
(* App (src/src/App.tsx) *)

\* an entry put in front of the log
addLog_Prepend(log, message, type) == <<LogEntry(message, type)>> \o log

\* App.tsx 36-39
addLog(log, message, type) == Append(log, LogEntry(message, type))

\* a clear that leaves an entry of its own
ClearedLogs_Residual == <<LogEntry(<<"Logs cleared">>, "info")>>

\* App.tsx 42: setLogs([])
ClearedLogs == <<>>

\* result.data?.id (App.tsx 85)
DataId(result) ==
    IF Len(result.data) = 2 /\ result.data[1] = "id" THEN result.data[2] ELSE "undefined"

\* a handler without its catch block: a rejected tester method rejects the
\* handler
AppSettled_NoCatch(c, okLog, failPrefix) ==
    IF c.kind = "return"
    THEN [slot |-> <<c.value>>,
          log |-> IF c.value.success
                  THEN <<LogEntry(okLog, "success")>>
                  ELSE <<LogEntry(<<failPrefix>> \o c.value.message, "error")>>,
          completion |-> "resolved"]
    ELSE [slot |-> <<>>, log |-> <<>>, completion |-> "rejected"]

\* The try/catch every handler ends with (App.tsx 49-65, 80-96, 111-127,
\* 142-158, 165-181): `c` is the completion of the awaited tester method.
\* Gives the envelopes written to the handler's slot, the entries logged and
\* how the handler's own promise ends.
AppSettled(c, okLog, failPrefix) ==
    IF c.kind = "return"
    THEN [slot |-> <<c.value>>,
          log |-> IF c.value.success
                  THEN <<LogEntry(okLog, "success")>>
                  ELSE <<LogEntry(<<failPrefix>> \o c.value.message, "error")>>,
          completion |-> "resolved"]
    ELSE IF c.value.hasMessage
    THEN [slot |-> <<TestResult(FALSE, <<failPrefix>> \o c.value.message, <<>>)>>,
          log |-> <<LogEntry(<<failPrefix>> \o c.value.message, "error")>>,
          completion |-> "resolved"]
    ELSE [slot |-> <<>>, log |-> <<>>, completion |-> "rejected"]

\* a handler that writes its slot only while it is null: the first
\* completion wins
Written_First(slot, writes) ==
    IF slot # NULL \/ writes = <<>> THEN slot ELSE writes[Len(writes)]

\* a handler that forgets setResults
Written_Dropped(slot, writes) == slot

\* setResults(prev => ({...prev, slot: result})) for each envelope written
Written(slot, writes) == IF writes = <<>> THEN slot ELSE writes[Len(writes)]

\* what a step reports of itself: the calls it made on the underlying client
\* or fetch, and how the handler's own promise ended
Op(calls, completion) ==
    /\ sdkCalls' = calls
    /\ unhandled' = (unhandled \/ completion = "rejected")

\* a handler that kept the config of the first render
RequestConfig_Stale == InitialConfig

\* App.tsx 50, 81, 112, 143, 166: tester.test...(config), the config of the
\* render the handler was created in (useCallback dependencies, App.tsx 66,
\* 97, 128, 159, 182), which is the current one
RequestConfig == config

\* the last initializeSDK returned success: the client state is Ready
Ready == results.init # NULL /\ results.init.success

\* An invocation that reached the underlying client or fetch.  state is
\* "pending" until the call settles, then "settled" or "failed", and for a
\* mount "mounted" or "mountFailed", then "delivered" once the client called
\* back.  The other fields observe it: ready is the client state when it was
\* invoked, stored the success of the envelopes it wrote to its slot, cleared
\* whether its surface was cleared since, outcome what its callback showed.
Invocation(probe) ==
    [probe |-> probe, state |-> "pending", ready |-> Ready, stored |-> <<>>,
     cleared |-> FALSE, outcome |-> <<>>]

\* the invocations whose handler is suspended at its await
Pending == {i \in 1..Len(inv) : inv[i].state = "pending"}

InState(probe, state) ==
    {i \in 1..Len(inv) : inv[i].probe = probe /\ inv[i].state = state}

\* App.tsx 203-235: the three inputs' onChange
setConfig ==
    /\ \E c \in TestConfig :
          /\ \/ c = [config EXCEPT !.publishableKey = c.publishableKey]
             \/ c = [config EXCEPT !.businessId = c.businessId]
             \/ c = [config EXCEPT !.sdkToken = c.sdkToken]
          /\ c # config
          /\ config' = c
    /\ Op({}, "none")
    /\ UNCHANGED <<axraPay, isInitialized, logs, results, inv, dom>>

\* App.tsx 41-43
clearLogs ==
    /\ logs' = ClearedLogs
    /\ Op({}, "none")
    /\ UNCHANGED <<config, axraPay, isInitialized, results, inv, dom>>

\* App.tsx 45-66: initializeSDK has no await, so the handler is one step
initializationWith(ctor) ==
    /\ Len(logs) + 2 <= MaxLog
    /\ LET r == initializeSDK(RequestConfig, ctor)
           a == AppSettled(r.completion, <<"SDK initialized successfully!">>,
                           "SDK initialization failed: ")
       IN  /\ axraPay' = r.axraPay
           /\ isInitialized' = r.isInitialized
           /\ results' = [results EXCEPT !.init = Written(NULL, a.slot)]
           /\ logs' = addLog(logs, <<"Starting SDK initialization test...">>, "info")
                         \o a.log
           /\ Op(r.calls, a.completion)
    /\ UNCHANGED <<config, inv, dom>>

testSDKInitialization ==
    \E ctor \in {Return("ok")} \cup {Throw(e) : e \in SdkErrors} :
        initializationWith(ctor)

\* App.tsx 69-75, 100-106, 131-137: the handler's own gate
gateRejected(slot) ==
    /\ results' = [results EXCEPT ![slot] = GateResult]
    /\ Op({}, "resolved")
    /\ UNCHANGED <<config, axraPay, isInitialized, logs, inv, dom>>

\* a handler whose tester method returned or threw without awaiting the
\* underlying client: the start entry, the null slot, then the try/catch
settledAtOnce(slot, startLog, c, okLog, failPrefix) ==
    LET a == AppSettled(c, okLog, failPrefix)
    IN  /\ Len(logs) + 2 <= MaxLog
        /\ results' = [results EXCEPT ![slot] = Written(NULL, a.slot)]
        /\ logs' = addLog(logs, startLog, "info") \o a.log
        /\ Op({}, a.completion)
        /\ UNCHANGED <<config, axraPay, isInitialized, inv, dom>>

\* a handler suspended at the await of a call on the underlying client or fetch
suspended(slot, startLog, probe, call) ==
    /\ Len(logs) + 1 <= MaxLog
    /\ Len(inv) < MaxInv
    /\ results' = [results EXCEPT ![slot] = NULL]
    /\ logs' = addLog(logs, startLog, "info")
    /\ inv' = Append(inv, Invocation(probe))
    /\ Op({call}, "suspended")
    /\ UNCHANGED <<config, axraPay, isInitialized>>

\* the rest of a suspended handler: the try/catch on the tester's completion
resumed(i, slot, state, c, okLog, failPrefix) ==
    LET a == AppSettled(c, okLog, failPrefix)
    IN  /\ Len(logs) + Len(a.log) <= MaxLog
        /\ results' = [results EXCEPT ![slot] = Written(@, a.slot)]
        /\ logs' = logs \o a.log
        /\ inv' = [inv EXCEPT ![i].state = state,
                              ![i].stored = @ \o [k \in 1..Len(a.slot) |->
                                                    a.slot[k].success]]
        /\ Op({}, a.completion)
        /\ UNCHANGED <<config, axraPay, isInitialized>>

\* App.tsx 68-97 up to the await of createPaymentIntent (axrapay.ts 57-71).
\* The buttons of the three dependent probes are rendered disabled while
\* !tester.isSDKInitialized() (App.tsx 261, 277, 310); the handlers carry
\* their own gate and are modelled as callable in every state.
testPaymentIntent ==
    IF ~isSDKInitialized
    THEN gateRejected("payment")
    ELSE IF TesterGateClosed
    THEN settledAtOnce("payment", <<"Testing payment intent creation...">>,
                       Return(GateResult), <<>>, "Payment intent creation failed: ")
    ELSE /\ suspended("payment", <<"Testing payment intent creation...">>,
                      "payment", PaymentIntentCall(RequestConfig))
         /\ UNCHANGED dom

\* App.tsx 81-96 and axrapay.ts 66-84: createPaymentIntent settles
paymentIntentSettledWith(settled) ==
    \E i \in InState("payment", "pending") :
        LET c == testPaymentIntent_settled(settled)
        IN  /\ resumed(i, "payment",
                       IF settled.kind = "return" THEN "settled" ELSE "failed", c,
                       <<"Payment intent created: ",
                         IF c.kind = "return" THEN DataId(c.value) ELSE "">>,
                       "Payment intent creation failed: ")
            /\ UNCHANGED dom

paymentIntentSettled ==
    \E settled \in {Return(p) : p \in PaymentIntents} \cup {Throw(e) : e \in SdkErrors} :
        paymentIntentSettledWith(settled)

\* App.tsx 99-128 / 130-159 up to the await of the mount call
\* (axrapay.ts 90-163 / 226-303)
testForm(w) ==
    IF ~isSDKInitialized
    THEN gateRejected(Texts(w).slot)
    ELSE IF TesterGateClosed
    THEN settledAtOnce(Texts(w).slot, Texts(w).startLog,
                       Return(GateResult), Texts(w).okLog, Texts(w).failPrefix)
    ELSE IF ContainerMissing(dom[w])
    THEN settledAtOnce(Texts(w).slot, Texts(w).startLog,
                       mountFailed(w, dom[w], ContainerNotFound(w)).completion,
                       Texts(w).okLog, Texts(w).failPrefix)
    ELSE /\ suspended(Texts(w).slot, Texts(w).startLog, w,
                      MountCall(w, RequestConfig))
         /\ dom' = [dom EXCEPT ![w] = MountedContent(Len(inv) + 1)]

testCardForm == testForm("card")

testTokenForm == testForm("token")

\* App.tsx 112-127 / 143-158 and axrapay.ts 165-191 / 305-331: the mount
\* call settles
formSettled(w) ==
    \E i \in InState(w, "pending") :
    \E settled \in {Return("mounted")} \cup {Throw(e) : e \in SdkErrors} :
        LET t == testForm_settled(w, dom[w], settled)
        IN  /\ resumed(i, Texts(w).slot,
                       IF settled.kind = "return" THEN "mounted" ELSE "mountFailed",
                       t.completion, Texts(w).okLog, Texts(w).failPrefix)
            /\ dom' = [dom EXCEPT ![w] = t.content]

cardFormSettled == formSettled("card")

tokenFormSettled == formSettled("token")

\* callbacks that are honoured only while the tester is initialized
formCallback_Guarded(w) ==
    \E i \in InState(w, "mounted") :
    \E c \in Callbacks :
        /\ isInitialized
        /\ dom' = [dom EXCEPT ![w] = showFormResult(@, CallbackShown(w, c), i)]
        /\ inv' = [inv EXCEPT ![i].state = "delivered",
                              ![i].outcome = <<[cb |-> c.cb,
                                                shown |-> dom'[w] # dom[w],
                                                cleared |-> inv[i].cleared]>>]
        /\ Op({}, "none")
        /\ UNCHANGED <<config, axraPay, isInitialized, logs, results>>

\* axrapay.ts 133-154 / 273-294: the underlying client calls one of the
\* callbacks of a mounted widget.  The client calls back at most once per
\* mount, and after the mount call resolved.
formCallback(w) ==
    \E i \in InState(w, "mounted") :
    \E c \in Callbacks :
        /\ dom' = [dom EXCEPT ![w] = showFormResult(@, CallbackShown(w, c), i)]
        /\ inv' = [inv EXCEPT ![i].state = "delivered",
                              ![i].outcome = <<[cb |-> c.cb,
                                                shown |-> dom'[w] # dom[w],
                                                cleared |-> inv[i].cleared]>>]
        /\ Op({}, "none")
        /\ UNCHANGED <<config, axraPay, isInitialized, logs, results>>

cardFormCallback == formCallback("card")

tokenFormCallback == formCallback("token")

\* a clear that empties both surfaces
clearForm_Both(w) ==
    /\ Len(logs) + 1 <= MaxLog
    /\ dom' = [v \in Widgets |-> IF dom[v] = NULL THEN dom[v] ELSE Cleared]
    /\ logs' = addLog(logs, Texts(w).clearedLog, "info")
    /\ inv' = [i \in 1..Len(inv) |->
                 IF inv[i].probe \in Widgets THEN [inv[i] EXCEPT !.cleared = TRUE]
                 ELSE inv[i]]
    /\ Op({}, "none")
    /\ UNCHANGED <<config, axraPay, isInitialized, results>>

\* a clear that aborts the mount calls in flight for its surface
clearForm_Aborts(w) ==
    /\ Len(logs) + 1 <= MaxLog
    /\ dom' = [dom EXCEPT ![w] = IF @ = NULL THEN @ ELSE Cleared]
    /\ logs' = addLog(logs, Texts(w).clearedLog, "info")
    /\ inv' = [i \in 1..Len(inv) |->
                 IF inv[i].probe = w
                 THEN [inv[i] EXCEPT !.cleared = TRUE,
                                     !.state = IF @ = "pending" THEN "failed" ELSE @]
                 ELSE inv[i]]
    /\ Op({}, "none")
    /\ UNCHANGED <<config, axraPay, isInitialized, results>>

\* App.tsx 283-287 / 316-320: the Clear buttons
clearForm(w) ==
    /\ Len(logs) + 1 <= MaxLog
    /\ dom' = [dom EXCEPT ![w] = IF @ = NULL THEN @ ELSE Cleared]
    /\ logs' = addLog(logs, Texts(w).clearedLog, "info")
    /\ inv' = [i \in 1..Len(inv) |->
                 IF inv[i].probe = w THEN [inv[i] EXCEPT !.cleared = TRUE] ELSE inv[i]]
    /\ Op({}, "none")
    /\ UNCHANGED <<config, axraPay, isInitialized, results>>

clearCardForm == clearForm("card")

clearTokenForm == clearForm("token")

\* a CORS probe behind the gate of the dependent probes
testCORS_Gated ==
    IF ~isSDKInitialized
    THEN gateRejected("cors")
    ELSE /\ suspended("cors", <<"Testing CORS headers...">>, "cors",
                      FetchCall(RequestConfig))
         /\ UNCHANGED dom

\* App.tsx 161-166 and axrapay.ts 368-376: up to the await of fetch
testCORS ==
    /\ suspended("cors", <<"Testing CORS headers...">>, "cors", FetchCall(RequestConfig))
    /\ UNCHANGED dom

\* App.tsx 166-181 and axrapay.ts 378-405: fetch settles
corsSettled ==
    \E i \in InState("cors", "pending") :
    \E settled \in {Return(r) : r \in Responses} \cup {Throw(e) : e \in FetchFailures} :
        /\ resumed(i, "cors",
                   IF settled.kind = "return" /\ settled.value.ok
                   THEN "settled" ELSE "failed",
                   testCORS_settled(settled),
                   <<"CORS test passed - Cross-origin request successful!">>,
                   "CORS test failed: ")
        /\ UNCHANGED dom

----------------------------------------------------------------------------

\* App.tsx 14-34, 294-299, 327-332 and axrapay.ts 18-19: the state after
\* construction and the first render
Init ==
    /\ config = InitialConfig
    /\ axraPay = NULL
    /\ isInitialized = FALSE
    /\ logs = <<>>
    /\ results = [init |-> NULL, payment |-> NULL, cardForm |-> NULL,
                  tokenForm |-> NULL, cors |-> NULL]
    /\ inv = <<>>
    /\ dom = [card |-> Placeholder, token |-> Placeholder]
    /\ sdkCalls = {}
    /\ unhandled = FALSE

Next ==
    \/ setConfig
    \/ clearLogs
    \/ testSDKInitialization
    \/ testPaymentIntent
    \/ paymentIntentSettled
    \/ testCardForm
    \/ cardFormSettled
    \/ cardFormCallback
    \/ clearCardForm
    \/ testTokenForm
    \/ tokenFormSettled
    \/ tokenFormCallback
    \/ clearTokenForm
    \/ testCORS
    \/ corsSettled

\* every behaviour of the program
Spec == Init /\ [][Next]_vars

----------------------------------------------------------------------------
(* The specifications the properties are checked under.  Each is the        *)
(* program restricted to some of its handlers, so that TLC finishes.        *)

\* all invocations that reach the underlying client or fetch are of one probe
OneProbe == \A i, j \in 1..Len(inv) : inv[i].probe = inv[j].probe

\* at most one invocation reaches the underlying client or fetch
Single == \A i, j \in 1..Len(inv) : i = j

\* the lifecycle and the three dependent probes, the invocations of one probe
NextGate ==
    \/ setConfig
    \/ clearLogs
    \/ testSDKInitialization
    \/ testPaymentIntent /\ OneProbe'
    \/ paymentIntentSettled
    \/ testCardForm /\ OneProbe'
    \/ cardFormSettled
    \/ testTokenForm /\ OneProbe'
    \/ tokenFormSettled

SpecGate == Init /\ [][NextGate]_vars

\* every handler and callback, a single invocation
NextSingle ==
    \/ setConfig
    \/ clearLogs
    \/ testSDKInitialization
    \/ testPaymentIntent /\ Single'
    \/ paymentIntentSettled
    \/ testCardForm /\ Single'
    \/ cardFormSettled
    \/ cardFormCallback
    \/ clearCardForm
    \/ testTokenForm /\ Single'
    \/ tokenFormSettled
    \/ tokenFormCallback
    \/ clearTokenForm
    \/ testCORS /\ Single'
    \/ corsSettled

SpecSingle == Init /\ [][NextSingle]_vars

\* the state after a successful testSDKInitialization and clearLogs
InitReady ==
    /\ config = InitialConfig
    /\ axraPay = NewAxraPay(InitialConfig)
    /\ isInitialized = TRUE
    /\ logs = <<>>
    /\ results = [init |-> initializeSDK(InitialConfig, Return("ok")).completion.value,
                  payment |-> NULL, cardForm |-> NULL, tokenForm |-> NULL,
                  cors |-> NULL]
    /\ inv = <<>>
    /\ dom = [card |-> Placeholder, token |-> Placeholder]
    /\ sdkCalls = {}
    /\ unhandled = FALSE

\* the lifecycle with a probe of the client, a widget mount and the CORS
\* probe, a single invocation, on a tester that was initialized with the
\* initial config
NextReinit ==
    \/ setConfig
    \/ clearLogs
    \/ testSDKInitialization
    \/ testPaymentIntent /\ Single'
    \/ paymentIntentSettled
    \/ testCardForm /\ Single'
    \/ cardFormSettled
    \/ testCORS /\ Single'
    \/ corsSettled

SpecReinit == InitReady /\ [][NextReinit]_vars

\* the lifecycle and the three dependent probes from construction, a single
\* invocation
NextLifecycle ==
    \/ setConfig
    \/ clearLogs
    \/ testSDKInitialization
    \/ testPaymentIntent /\ Single'
    \/ paymentIntentSettled
    \/ testCardForm /\ Single'
    \/ cardFormSettled
    \/ testTokenForm /\ Single'
    \/ tokenFormSettled

SpecLifecycle == Init /\ [][NextLifecycle]_vars

\* the lifecycle and the CORS probe from construction, a single invocation
NextCors ==
    \/ setConfig
    \/ clearLogs
    \/ testSDKInitialization
    \/ testCORS /\ Single'
    \/ corsSettled

SpecCors == Init /\ [][NextCors]_vars

\* each probe is invoked at most once
Once == \A i, j \in 1..Len(inv) : inv[i].probe = inv[j].probe => i = j

\* The outcome channel delivering late: a card form mounted on an
\* initialized tester, whose outcome is delivered after an initialize failed
\* and while the handler of another probe is suspended.
NextOutcome ==
    \/ clearLogs
    \/ testSDKInitialization
    \/ testCardForm /\ Once'
    \/ cardFormSettled
    \/ cardFormCallback /\ ~isInitialized /\ Pending # {}
    \/ testPaymentIntent /\ Once'
    \/ paymentIntentSettled
    \/ testCORS /\ Once'
    \/ corsSettled

SpecOutcome == InitReady /\ [][NextOutcome]_vars

\* the two widgets on an initialized tester
NextWidget ==
    \/ clearLogs
    \/ testCardForm
    \/ cardFormSettled
    \/ cardFormCallback
    \/ clearCardForm
    \/ testTokenForm
    \/ tokenFormSettled
    \/ tokenFormCallback
    \/ clearTokenForm

SpecWidget == InitReady /\ [][NextWidget]_vars

\* the two probes that render nothing, on an initialized tester, the
\* invocations in flight of one probe
NextFlight ==
    \/ clearLogs
    \/ testPaymentIntent /\ OneProbe'
    \/ paymentIntentSettled
    \/ testCORS /\ OneProbe'
    \/ corsSettled

SpecFlight == InitReady /\ [][NextFlight]_vars

\* An initialized tester on a page where a container element may be missing.
\* The mount methods look their container up by id in the document
\* (axrapay.ts 98, 234); the App renders both containers, so this is the
\* tester used on a page other than the App's.
InitSurface ==
    /\ config = InitialConfig
    /\ axraPay = NewAxraPay(InitialConfig)
    /\ isInitialized = TRUE
    /\ logs = <<>>
    /\ results = [init |-> initializeSDK(InitialConfig, Return("ok")).completion.value,
                  payment |-> NULL, cardForm |-> NULL, tokenForm |-> NULL,
                  cors |-> NULL]
    /\ inv = <<>>
    /\ dom \in [Widgets -> {NULL, Placeholder}]
    /\ sdkCalls = {}
    /\ unhandled = FALSE

SpecSurface == InitSurface /\ [][NextWidget]_vars


----------------------------------------------------------------------------
(* Properties *)

\* the result slot a probe's handler writes
SlotOf(probe) == IF probe \in Widgets THEN Texts(probe).slot ELSE probe

\* the step is an invocation of the dependent probe
Invoked(probe) ==
    IF probe = "payment" THEN testPaymentIntent ELSE testForm(probe)

\* the step keeps every entry of the log and appends none of type error
NoErrorLogged ==
    /\ Len(logs') >= Len(logs)
    /\ SubSeq(logs', 1, Len(logs)) = logs
    /\ \A k \in (Len(logs) + 1)..Len(logs') : logs'[k].type # "error"

\* C1: a dependent probe (payment intent, card mount, token mount) invoked
\* while the client is not ready, whether it was never initialized or its
\* last initialize failed, stores the envelope {success: false, "Please
\* initialize the SDK first"}, makes no call on the underlying client,
\* starts no invocation and appends no error entry to the log.
C1_GateRejects ==
    [][\A p \in {"payment"} \cup Widgets :
          (~Ready /\ Invoked(p)) =>
              /\ results' = [results EXCEPT ![SlotOf(p)] = GateResult]
              /\ sdkCalls' = {}
              /\ inv' = inv
              /\ axraPay' = axraPay
              /\ NoErrorLogged]_vars

\* the last initialize failed, and since the payment probe that ran while the
\* client was ready settled, every dependent probe has been rejected
C1_Witness ==
    /\ results.init # NULL /\ ~results.init.success
    /\ Len(inv) = 1 /\ inv[1].probe = "payment" /\ inv[1].state = "settled"
    /\ results.payment = GateResult
    /\ results.cardForm = GateResult
    /\ results.tokenForm = GateResult

\* C2 as stated: once true, isSDKInitialized() is never made false by any
\* operation of the harness (the tester has no reset()).
C2_StaysReady == [][isInitialized => isInitialized']_vars

\* C2, amended: isSDKInitialized() is changed by initialize calls only; each
\* leaves it equal to the success of the envelope it returned, so a later
\* failing initialize makes it false, and every other operation (probes,
\* their completions, widget callbacks, surface clears, log clears, config
\* edits) leaves it as it is.
C2_ReadyUntilFailedInit ==
    [][IF testSDKInitialization
       THEN isInitialized' = results'.init.success
       ELSE isInitialized' = isInitialized]_vars

\* still ready after a mount, its callback, a surface clear and a log clear
C2_Witness ==
    /\ isInitialized
    /\ Len(inv) = 1 /\ inv[1].state = "delivered" /\ inv[1].cleared
    /\ logs = <<>>

\* C3: an initialize call with an empty publishableKey or businessId stores
\* an envelope with success false, leaves the tester not initialized whatever
\* it was before, and does not invoke the client constructor.
C3_MissingCredential ==
    [][(testSDKInitialization /\ (config.publishableKey = "" \/ config.businessId = "")) =>
           /\ results'.init # NULL /\ ~results'.init.success
           /\ ~isInitialized'
           /\ \A c \in sdkCalls' : c.call # "new AxraPay"
           /\ axraPay' = axraPay]_vars

\* a client that had been constructed, then an initialize with the business
\* id missing
C3_Witness ==
    /\ axraPay # NULL
    /\ ~isInitialized
    /\ config.publishableKey # "" /\ config.businessId = ""
    /\ results.init = initializeSDK(config, Return("ok")).completion.value
    /\ sdkCalls = {}
    /\ Len(logs) = 2

\* C4: every invocation of a dependent probe that reached the underlying
\* client was made while the client was Ready; the gate is evaluated at the
\* invocation only, so the invocation completes with the client's envelope
\* even if a later initialize has failed meanwhile.
C4_ReadyAtInvocation ==
    \A i \in 1..Len(inv) :
        inv[i].probe \in {"payment"} \cup Widgets => inv[i].ready

\* a payment probe invoked while ready that settled with the client's
\* success after a later initialize had failed (the log was cleared after
\* that initialize and holds the entry of the completion only)
C4_Witness ==
    /\ ~isInitialized
    /\ Len(inv) = 1 /\ inv[1].probe = "payment" /\ inv[1].state = "settled"
    /\ inv[1].ready
    /\ results.payment # NULL /\ results.payment.success
    /\ Len(logs) = 1 /\ logs[1].type = "success"

\* the invocations of the two widget probes: the mount sessions
Sessions == {i \in 1..Len(inv) : inv[i].probe \in Widgets}

\* what the callback named cb of widget w shows
Shown(w, cb) == CallbackShown(w, CHOOSE c \in Callbacks : c.cb = cb)

\* C5 as stated: when the underlying client calls an outcome callback of a
\* mounted widget, one entry is appended to the log for it, of type success
\* for onSuccess and of type error for onError and for onCancel.
C5_OutcomeLogged ==
    [][\A w \in Widgets : \A i \in InState(w, "mounted") :
          inv'[i].state = "delivered" =>
              logs' = addLog(logs, Shown(w, inv'[i].outcome[1].cb).message,
                             Shown(w, inv'[i].outcome[1].cb).type)]_vars

\* C6 as stated: a mount session records at most one interaction outcome, and
\* none is displayed for a session whose surface was cleared before its
\* callback was delivered.
C6_NoOutcomeAfterClear ==
    \A i \in Sessions :
        /\ Len(inv[i].outcome) <= 1
        /\ (inv[i].outcome # <<>> /\ inv[i].outcome[1].cleared) =>
               ~inv[i].outcome[1].shown

\* C7 as stated: the result panel of a surface shows only an outcome of the
\* mount session that built the subtree it is part of, never the late
\* callback of an earlier session.
C7_PanelOfOwnSession ==
    \A w \in Widgets :
        (HasSubtree(dom[w]) /\ dom[w].result # <<>>) =>
            dom[w].result[1].from = dom[w].gen

C9_NeverRejects ==
    /\ ~unhandled
    /\ results.init # NULL => (results.init.success <=> isInitialized)
    /\ \A i \in 1..Len(inv) :
           inv[i].state \in {"failed", "mountFailed"} => inv[i].stored = <<FALSE>>

\* the underlying client rejected with a value that has no message: the
\* tester's catch block threw, and the handler's own catch block built the
\* envelope in the slot
C9_Witness ==
    /\ Len(inv) = 1 /\ inv[1].probe = "payment" /\ inv[1].state = "failed"
    /\ results.payment =
           TestResult(FALSE, <<"Payment intent creation failed: ">> \o TypeErrorMessage,
                      <<>>)
    /\ ~unhandled

\* C10: an invocation has stored nothing in its slot while its underlying
\* call is pending, and exactly one envelope once the call has settled,
\* resolved or rejected; the slot is then not null.  An initialize call has
\* stored its envelope when it returns.
C10_OneEnvelope ==
    /\ \A i \in 1..Len(inv) :
           IF inv[i].state = "pending"
           THEN inv[i].stored = <<>>
           ELSE Len(inv[i].stored) = 1 /\ results[SlotOf(inv[i].probe)] # NULL
    /\ logs # <<>> /\ logs[1].message = <<"Starting SDK initialization test...">> =>
           results.init # NULL

\* a CORS probe whose fetch was rejected has stored its one envelope
C10_Witness ==
    /\ Len(inv) = 1 /\ inv[1].probe = "cors" /\ inv[1].state = "failed"
    /\ inv[1].stored = <<FALSE>>
    /\ results.cors # NULL /\ ~results.cors.success
    /\ results.init # NULL

\* the invocations whose underlying call settles in the step
Settling == {i \in 1..Len(inv) : inv[i].state = "pending" /\ inv'[i].state # "pending"}

\* the step appends entries to the log, the first of them of type info
StartLogged ==
    /\ Len(logs') > Len(logs)
    /\ logs'[Len(logs) + 1].type = "info"

\* C11 as stated: every probe invocation, whatever its outcome, appends one
\* info entry when it starts, and exactly one further entry when it
\* resolves, of type success exactly when the envelope has success true.
C11_StartAndResolveLogged ==
    [][/\ \A p \in {"payment"} \cup Widgets : Invoked(p) => StartLogged
       /\ testCORS => StartLogged
       /\ testSDKInitialization =>
              /\ StartLogged
              /\ Len(logs') = Len(logs) + 2
              /\ logs'[Len(logs')].type = "success" <=> results'.init.success
       /\ \A i \in Settling :
              /\ Len(logs') = Len(logs) + 1
              /\ logs'[Len(logs')].type = "success" <=>
                     results'[SlotOf(inv[i].probe)].success]_vars

\* C12 as stated: the entry appended when a probe resolves carries the
\* message of the envelope stored for that invocation.
C12_SameMessage ==
    [][/\ testSDKInitialization =>
              logs'[Len(logs')].message = results'.init.message
       /\ \A i \in Settling :
              /\ logs' # logs
              /\ logs'[Len(logs')].message =
                     results'[SlotOf(inv[i].probe)].message]_vars

\* C13 as stated: a dependent probe rejected by the gate appends one entry
\* to the log, of type info.
C13_GateRejectionLogged ==
    [][\A p \in {"payment"} \cup Widgets :
          (~Ready /\ Invoked(p)) =>
              /\ Len(logs') = Len(logs) + 1
              /\ logs'[Len(logs')].type = "info"]_vars

\* the text a failure envelope built by a catch block of the tester carries
\* in its data
FailureText(result) == SubSeq(result.data, 2, Len(result.data))

\* a fragment in lower case
Lower(word) ==
    IF word = "CORS" THEN "cors"
    ELSE IF word = "Cross-Origin" THEN "cross-origin"
    ELSE word

\* C14 as stated: a CORS probe whose request failed before any response
\* reports a CORS-policy failure exactly when the failure text contains
\* "CORS" or "cross-origin" in any letter case, and a generic network
\* failure otherwise; both with success false.
C14_CaseInsensitive ==
    (results.cors # NULL /\ results.cors.data # <<>> /\ results.cors.data[1] = "error") =>
        /\ ~results.cors.success
        /\ results.cors.message[1] \in
               {"CORS test failed - CORS error: ", "CORS test failed: "}
        /\ results.cors.message[1] = "CORS test failed - CORS error: " <=>
               \E k \in 1..Len(FailureText(results.cors)) :
                   Lower(FailureText(results.cors)[k]) \in {"cors", "cross-origin"}

\* the response with the status an envelope reports
ResponseOf(result) == CHOOSE r \in Responses : r.status = result.data[2]

\* C15: a CORS probe that received a response stores success true exactly
\* when the response is ok, and for a response that is not ok a message that
\* includes its status.
C15_HttpStatus ==
    (results.cors # NULL /\ results.cors.data # <<>> /\ results.cors.data[1] = "status") =>
        /\ results.cors.success <=> ResponseOf(results.cors).ok
        /\ ~results.cors.success =>
               Includes(results.cors.message, ResponseOf(results.cors).status)

\* the probe settled on a response of status 403
C15_Witness ==
    /\ \E i \in 1..Len(inv) : inv[i].probe = "cors" /\ inv[i].state = "failed"
    /\ results.cors # NULL
    /\ ~results.cors.success
    /\ results.cors.data = <<"status", "403">>
    /\ Includes(results.cors.message, "403")

\* C16: the clear operation leaves the log empty, whatever it held, with no
\* entry of its own.
C16_ClearEmpties == [][clearLogs => logs' = <<>>]_vars

\* an initialize has filled the log, and it is empty again
C16_Witness ==
    /\ results.init # NULL
    /\ logs = <<>>

\* C17: every operation other than the clear leaves the log as it is or
\* extends it at the end: the log before the step is a prefix of the log
\* after it.
C17_AppendOnly ==
    [][~clearLogs =>
          /\ Len(logs') >= Len(logs)
          /\ SubSeq(logs', 1, Len(logs)) = logs]_vars

\* the start entry of a payment probe followed by the entry of its resolution
C17_Witness ==
    /\ Len(inv) = 1 /\ inv[1].probe = "payment" /\ inv[1].state # "pending"
    /\ Len(logs) = 2
    /\ logs[1] = LogEntry(<<"Testing payment intent creation...">>, "info")
    /\ logs[2].type # "info"

\* C18: a widget mount probe invoked on a Ready client whose container
\* element does not exist stores an envelope with success false, does not
\* call the mount method of the underlying client, and starts no session
\* (no callbacks are registered), and leaves the page as it is.
C18_MissingSurface ==
    [][\A w \in Widgets :
          (Ready /\ dom[w] = NULL /\ testForm(w)) =>
              /\ results'[SlotOf(w)] # NULL
              /\ ~results'[SlotOf(w)].success
              /\ sdkCalls' = {}
              /\ inv' = inv
              /\ dom' = dom]_vars

\* the card probe has failed on a page without its container
C18_Witness ==
    /\ dom["card"] = NULL
    /\ results.cardForm =
           TestResult(FALSE,
               <<"Card form mounting failed: ">> \o ContainerNotFound("card").message,
               <<"error">> \o ContainerNotFound("card").message)
    /\ \A i \in 1..Len(inv) : inv[i].probe # "card"

\* the sessions of widget w whose mount call fails in the step
MountFailing(w) == {i \in InState(w, "pending") : inv'[i].state = "mountFailed"}

\* C19 as stated, for a failure that carries a message: whenever the mount
\* call throws or rejects, the probe stores success false and the surface
\* shows the failure notice, also when the surface was cleared or mounted
\* again while the call was in flight.
C19_NoticeAlways ==
    [][\A w \in Widgets : \A i \in MountFailing(w) :
          results'[SlotOf(w)].data # <<>> =>
              /\ ~results'[SlotOf(w)].success
              /\ dom'[w].form = "failed"]_vars

\* C19, amended: whenever the mount call throws or rejects, the probe stores
\* success false; the failure notice is written into the form element the
\* container holds when the call settles.  It is shown when the surface was
\* mounted again in flight (in the form element of the newer mount); no
\* notice is shown, and the surface is left as it is, when the surface was
\* cleared in flight or when the value thrown carries no message.
C19_NoticeIfFormPresent ==
    [][\A w \in Widgets : \A i \in MountFailing(w) :
          /\ results'[SlotOf(w)] # NULL
          /\ ~results'[SlotOf(w)].success
          /\ dom'[w] = IF HasSubtree(dom[w]) /\ results'[SlotOf(w)].data # <<>>
                       THEN [dom[w] EXCEPT !.form = "failed"]
                       ELSE dom[w]]_vars

\* the first mount failed while the second, made meanwhile, is pending: the
\* notice stands in the second mount's form element
C19_Witness ==
    /\ Len(inv) = 2
    /\ inv[1].probe = "card" /\ inv[1].state = "mountFailed"
    /\ inv[2].probe = "card" /\ inv[2].state = "pending"
    /\ dom["card"].gen = 2
    /\ dom["card"].form = "failed"

\* C20: when an invocation settles, whatever other invocation of its probe
\* is in flight or has settled before, its entry is appended at the end of
\* the log, its envelope is the one its slot holds afterwards, and every
\* other invocation is left as it is.  Entries are so in completion order
\* and the slot holds the envelope of the invocation that settled last.
C20_CompletionOrder ==
    [][\A i \in Settling :
          /\ Len(inv'[i].stored) = 1
          /\ results'[SlotOf(inv[i].probe)] # NULL
          /\ results'[SlotOf(inv[i].probe)].success = inv'[i].stored[1]
          /\ Len(logs') = Len(logs) + 1
          /\ SubSeq(logs', 1, Len(logs)) = logs
          /\ logs'[Len(logs')].type = "success" <=> inv'[i].stored[1]
          /\ \A j \in 1..Len(inv) : j # i => inv'[j] = inv[j]]_vars

\* two payment probes in flight at once: the second settled first, with
\* success, then the first, with a failure; the log holds the two entries in
\* that order and the slot the failure
C20_Witness ==
    /\ Len(inv) = 2
    /\ inv[1].probe = "payment" /\ inv[1].stored = <<FALSE>>
    /\ inv[2].probe = "payment" /\ inv[2].stored = <<TRUE>>
    /\ Len(logs) = 2
    /\ logs[1].type = "success" /\ logs[2].type = "error"
    /\ results.payment # NULL /\ ~results.payment.success

\* C22: when the construction of the underlying client throws during
\* initialize, the tester is left not initialized and the envelope stored for
\* the probe has success false and a message made of the failure prefix and
\* the message of the thrown error (of the TypeError its absence raises, when
\* the thrown value has none).
C22_ConstructorThrows ==
    [][\A e \in SdkErrors :
          (initializationWith(Throw(e)) /\ sdkCalls' # {}) =>
              /\ ~isInitialized'
              /\ results'.init # NULL /\ ~results'.init.success
              /\ results'.init.message =
                     <<"SDK initialization failed: ">>
                         \o (IF e.hasMessage THEN e.message ELSE TypeErrorMessage)]_vars

\* a constructor that threw on a tester that had been initialized
C22_Witness ==
    /\ sdkCalls = {ConstructorCall(config)}
    /\ axraPay # NULL
    /\ ~isInitialized
    /\ results.init # NULL
    /\ results.init.message = <<"SDK initialization failed: ", "sdk failure">>

\* C27: in every reachable state an initialized tester holds a client, so
\* the gate of the App (isSDKInitialized()) and the gate of the tester
\* (!isInitialized || !axraPay) agree: a probe that passes the first passes
\* the second.
C27_GatesAgree ==
    /\ isInitialized => axraPay # NULL
    /\ isSDKInitialized <=> ~TesterGateClosed

\* a probe that passed both gates, on a tester initialized with an edited
\* config
C27_Witness ==
    /\ isInitialized
    /\ axraPay = NewAxraPay(config)
    /\ config # InitialConfig
    /\ InState("payment", "pending") # {}

\* C28: an initialize that fails, by a missing credential or by a throwing
\* constructor, leaves the client handle as it was and the tester not
\* initialized; a dependent probe invoked while the tester is not initialized
\* makes no call on the retained client and starts no invocation.
C28_HandleRetained ==
    [][/\ (testSDKInitialization /\ ~results'.init.success) =>
              axraPay' = axraPay /\ ~isInitialized'
       /\ (~isInitialized /\ (testPaymentIntent \/ testCardForm \/ testTokenForm)) =>
              sdkCalls' = {} /\ inv' = inv]_vars

\* a client retained by a failed initialize, and a dependent probe rejected
\* by the gate afterwards
C28_Witness ==
    /\ axraPay # NULL
    /\ ~isInitialized
    /\ results.init # NULL /\ ~results.init.success
    /\ results.payment = GateResult
    /\ sdkCalls = {}

\* the calls a step made on a client, as opposed to its constructor and fetch
ClientCalls(calls) ==
    {c \in calls : c.call \in {"createPaymentIntent", "mountCardForm", "mountTokenForm"}}

\* C23: a successful initialize replaces the client handle by the client
\* constructed from the config it was called with, every other step leaves
\* the handle as it is, and every call a dependent probe makes is made on the
\* current handle: after successful initializes with configs A then B, on the
\* client constructed from B.
C23_LastWriterWins ==
    [][/\ IF testSDKInitialization /\ results'.init.success
          THEN axraPay' = NewAxraPay(config)
          ELSE axraPay' = axraPay
       /\ \A c \in ClientCalls(sdkCalls') : c.on = axraPay' /\ c.on # NULL]_vars

\* the tester was initialized with the initial config, then with an edited
\* one, and a payment intent is requested on the client of the second
C23_Witness ==
    /\ isInitialized
    /\ axraPay # NewAxraPay(InitialConfig)
    /\ sdkCalls = {PaymentIntentCall(config)}
    /\ \A c \in sdkCalls : c.on = NewAxraPay(config)

\* C26: a probe sends the parameters of the config it was invoked with: the
\* step that starts an invocation makes exactly the request built from the
\* config of that moment; an edit of the config makes no request and leaves
\* the invocations in flight and every result slot as they are; the step
\* that settles an invocation makes no request and reads no config.
C26_ConfigAtInvocation ==
    [][/\ (testPaymentIntent /\ inv' # inv) => sdkCalls' = {PaymentIntentCall(config)}
       /\ (testCardForm /\ inv' # inv) => sdkCalls' = {MountCall("card", config)}
       /\ (testCORS /\ inv' # inv) => sdkCalls' = {FetchCall(config)}
       /\ (testSDKInitialization /\ sdkCalls' # {}) => sdkCalls' = {ConstructorCall(config)}
       /\ config' # config => sdkCalls' = {} /\ inv' = inv /\ results' = results
       /\ (paymentIntentSettled \/ cardFormSettled \/ corsSettled) =>
              sdkCalls' = {} /\ config' = config]_vars

\* a payment intent requested with the initial config, the business id
\* edited while the request was in flight, and its envelope stored
C26_Witness ==
    /\ config.businessId # InitialConfig.businessId
    /\ axraPay = NewAxraPay(InitialConfig)
    /\ Len(inv) = 1 /\ inv[1].probe = "payment" /\ inv[1].state = "settled"
    /\ results.payment # NULL /\ results.payment.success

\* C24: when the create-intent call of a payment probe resolves, the envelope
\* stored has success true and a message that ends with "ID: " and the
\* identifier of the created intent; when it rejects, the envelope has
\* success false and a message made of the failure prefix and the message of
\* the rejection (of the TypeError its absence raises, when the rejection
\* has none).
C24_PaymentEnvelope ==
    [][/\ \A p \in PaymentIntents :
              paymentIntentSettledWith(Return(p)) =>
                  /\ results'.payment # NULL /\ results'.payment.success
                  /\ Includes(results'.payment.message,
                              "Payment intent created successfully! ID: ")
                  /\ results'.payment.message[Len(results'.payment.message)] = p.id
       /\ \A e \in SdkErrors :
              paymentIntentSettledWith(Throw(e)) =>
                  /\ results'.payment # NULL /\ ~results'.payment.success
                  /\ results'.payment.message =
                         <<"Payment intent creation failed: ">>
                             \o (IF e.hasMessage THEN e.message ELSE TypeErrorMessage)]_vars

\* a resolved payment probe of an initialized tester, its envelope stored
C24_Witness ==
    /\ isInitialized
    /\ Len(inv) = 1 /\ inv[1].probe = "payment" /\ inv[1].state = "settled"
    /\ inv[1].ready
    /\ results.payment # NULL
    /\ results.payment.message = <<"Payment intent created successfully! ID: ", "pi_1">>
    /\ results.init.success

\* C25: clearing a widget surface empties that surface and appends exactly
\* one info entry to the log; it leaves the readiness, the client handle,
\* every result slot and the config as they are, makes no call on the client,
\* and leaves every invocation in flight where it was: none is added,
\* removed, settled or delivered by the clear.
C25_ClearFrame ==
    [][\A w \in Widgets :
          clearForm(w) =>
              /\ Len(logs') = Len(logs) + 1
              /\ SubSeq(logs', 1, Len(logs)) = logs
              /\ logs'[Len(logs')].type = "info"
              /\ isInitialized' = isInitialized
              /\ axraPay' = axraPay
              /\ results' = results
              /\ config' = config
              /\ sdkCalls' = {}
              /\ Len(inv') = Len(inv)
              /\ \A i \in 1..Len(inv) :
                    /\ inv'[i].probe = inv[i].probe
                    /\ inv'[i].state = inv[i].state
                    /\ inv'[i].stored = inv[i].stored
                    /\ inv'[i].outcome = inv[i].outcome]_vars

\* a card mount that resolved after its surface was cleared while the mount
\* call was in flight
C25_Witness ==
    /\ Len(inv) = 1 /\ inv[1].probe = "card" /\ inv[1].cleared
    /\ inv[1].state = "mounted"
    /\ results.cardForm # NULL /\ results.cardForm.success
    /\ Len(logs) = 2
    /\ logs[1] = LogEntry(Texts("card").clearedLog, "info")
    /\ logs[2].type = "success"

\* the other widget surface
Other(w) == IF w = "card" THEN "token" ELSE "card"

\* C30: an outcome callback of a card session changes the card surface only
\* and one of a token session the token surface only, and clearing one
\* surface leaves the other surface and the sessions of the other widget,
\* their pending outcomes included, as they are.
C30_SurfacesIsolated ==
    [][\A w \in Widgets :
          (formCallback(w) \/ clearForm(w)) =>
              /\ dom'[Other(w)] = dom[Other(w)]
              /\ Len(inv') = Len(inv)
              /\ \A i \in 1..Len(inv) :
                    inv[i].probe = Other(w) => inv'[i] = inv[i]]_vars

\* the outcome of a token session shown on the token surface after the card
\* surface was cleared while that outcome was pending
C30_Witness ==
    /\ dom.card = Cleared
    /\ \E i, j \in 1..Len(inv) :
          /\ inv[i].probe = "card" /\ inv[i].cleared /\ inv[i].state = "mounted"
          /\ inv[j].probe = "token" /\ ~inv[j].cleared /\ inv[j].state = "delivered"
          /\ inv[j].outcome[1].shown
    /\ logs = <<LogEntry(Texts("card").clearedLog, "info")>>

\* C29: in every readiness state the CORS probe starts an invocation and
\* makes exactly its request, which is made on no client; when the request
\* settles, the envelope stored reports the response's status or the
\* failure's text and is never the gate's rejection; neither step changes the
\* readiness or the client handle.
C29_CorsUngated ==
    [][/\ testCORS =>
              /\ sdkCalls' = {FetchCall(config)}
              /\ ClientCalls(sdkCalls') = {}
              /\ Len(inv') = Len(inv) + 1
              /\ isInitialized' = isInitialized /\ axraPay' = axraPay
       /\ corsSettled =>
              /\ results'.cors # NULL /\ results'.cors # GateResult
              /\ results'.cors.data # <<>>
              /\ results'.cors.data[1] \in {"status", "error"}
              /\ sdkCalls' = {}
              /\ isInitialized' = isInitialized /\ axraPay' = axraPay]_vars

\* the probe invoked before any initialize, settled on a response that is ok
C29_Witness ==
    /\ axraPay = NULL /\ ~isInitialized /\ results.init = NULL
    /\ results.cors # NULL /\ results.cors.success
    /\ results.cors.data = <<"status", "200">>
    /\ \E i \in 1..Len(inv) : inv[i].probe = "cors" /\ inv[i].state = "settled"

\* room in the log and among the invocations for a handler to start, and in
\* the log for one to resume
RoomToStart == Len(logs) + 1 <= MaxLog /\ Len(inv) < MaxInv
RoomToResume == Len(logs) + 1 <= MaxLog

\* C21: once a widget is mounted, the delivery of its outcome stays possible
\* in every later state, whatever the readiness and whatever else is in
\* flight; the delivery leaves the readiness, the client handle and every
\* result slot as they are; and while an outcome is pending, another probe
\* can start and a suspended one can resume.
C21_OutcomeChannel ==
    /\ [](\A w \in Widgets :
             InState(w, "mounted") # {} =>
                 /\ ENABLED formCallback(w)
                 /\ RoomToStart => ENABLED testCORS
                 /\ (RoomToStart /\ isInitialized) => ENABLED testPaymentIntent
                 /\ (RoomToResume /\ InState("cors", "pending") # {}) =>
                        ENABLED corsSettled
                 /\ (RoomToResume /\ InState("payment", "pending") # {}) =>
                        ENABLED paymentIntentSettled)
    /\ [][\A w \in Widgets :
             formCallback(w) =>
                 /\ isInitialized' = isInitialized
                 /\ axraPay' = axraPay
                 /\ results' = results]_vars

\* the outcome of a card form delivered after an initialize failed and while
\* a CORS probe was in flight, which then settled
C21_Witness ==
    /\ ~isInitialized
    /\ axraPay # NULL
    /\ \E i, j \in 1..Len(inv) :
          /\ inv[i].probe = "card" /\ inv[i].state = "delivered"
          /\ inv[i].outcome[1].shown
          /\ inv[j].probe = "cors" /\ inv[j].state = "settled"
    /\ results.cardForm # NULL /\ results.cardForm.success
    /\ results.cors # NULL /\ results.cors.success

============================================================================
